---- MODULE Spec2Model ----
(***************************************************************************)
(* Model of vlp16_qt_live.py: the VLP-16 packet decoder (parse_packet),    *)
(* the projector (polar_to_cartesian) and the rotation history kept by     *)
(* MainWindow (all_points, rotation_count), driven by the two event        *)
(* handlers of the Qt event loop: the timer slot MainWindow.update and     *)
(* MainWindow.keyPressEvent.  The event loop is single threaded, so each   *)
(* handler runs to completion and is one atomic action.                    *)
(*                                                                         *)
(* Units.  Azimuths are kept in hundredths of a degree (the code's         *)
(* raw / 100.0 degrees), scaled distances in thousandths (the code's       *)
(* distance / 200.0 is distance * 5 thousandths).  A Cartesian point is    *)
(* kept in the spherical form <<s, v, h>> that polar_to_cartesian          *)
(* receives: it stands for s*(cos v cos h, cos v sin h, sin v); a zero     *)
(* range gives the origin whatever the angles.                             *)
(***************************************************************************)
EXTENDS Integers, Sequences, FiniteSets, TLC

VARIABLES
  all_points,          \* self.all_points: list of (points, distances)
  rotation_count,      \* self.rotation_count
  scatter,             \* pos last given to self.scatter.setData
  data,                \* update: the datagram last received
  parsed_data,         \* update: the last result of parse_packet
  combined_distances,  \* update: the scaled ranges last concatenated
  event,               \* history: the handler that ran last and its outcome
  log                  \* history: datagrams appended since the last reset

vars == <<all_points, rotation_count, scatter, data, parsed_data,
          combined_distances, event, log>>

(* ------------------------------ constants ------------------------------ *)

UDP_RECV_SIZE == 2048
PACKET_SIZE == 1206
BLOCK_SIZE == 100
NUM_BLOCKS == 12
CHANNELS_PER_BLOCK == 32
ROTATION_ANGLE_OFFSET == 2
DISTANCE_SCALE == 200

\* ROTATION_LIMIT is 40000 in the program; the model keeps the same
\* comparison with a small capacity so that eviction happens.
ROTATION_LIMIT == 2

\* Bound on the number of rotations counted in one run of the model.
MaxRotations == 4

vertical_angles ==
  <<-15, 1, -13, 3, -11, 5, -9, 7, -7, 9, -5, 11, -3, 13, -1, 15>>

\* The result of parse_packet: Python's None, or the list of blocks.
None == [none |-> TRUE, blocks |-> <<>>]

Blocks(bs) == [none |-> FALSE, blocks |-> bs]

Min(a, b) == IF a < b THEN a ELSE b

(* ------------------------------ datagrams ------------------------------ *)
(* A datagram is a byte string.  It is represented by the parameters of    *)
(* its content and read through ByteAt, which gives the byte at a 0-based  *)
(* index: len is its length, bad0 / bad1 the blocks whose first / second   *)
(* header byte is corrupt, az the azimuth field of block 0 (block b holds  *)
(* az + 40 b, modulo 2^16), seed varies the channel payload.               *)

AzimuthField(d, b) == (d.az + 40 * b) % 65536

\* Some channels report no return (distance 0).
DistanceField(d, b, j) ==
  IF (d.seed + b + j) % 7 = 0
    THEN 0
    ELSE (d.seed * 1000 + b * 259 + j * 3 + 1) % 65536

ReflectivityField(d, b, j) == (d.seed + 7 * b + j) % 256

ByteAt(d, k) ==
  IF k >= NUM_BLOCKS * BLOCK_SIZE
    THEN (k + d.seed) % 256
    ELSE LET b == k \div BLOCK_SIZE
             o == k % BLOCK_SIZE
         IN  CASE o = 0 -> IF b \in d.bad0 THEN 0 ELSE 255
               [] o = 1 -> IF b \in d.bad1 THEN 0 ELSE 238
               [] o = 2 -> AzimuthField(d, b) % 256
               [] o = 3 -> AzimuthField(d, b) \div 256
               [] OTHER ->
                    LET j == (o - 4) \div 3
                        r == (o - 4) % 3
                    IN  CASE r = 0 -> DistanceField(d, b, j) % 256
                          [] r = 1 -> DistanceField(d, b, j) \div 256
                          [] OTHER -> ReflectivityField(d, b, j)

Length(d) == d.len

\* data[:n]
Prefix(d, n) == [d EXCEPT !.len = Min(d.len, n)]

AllBlocks == 0 .. (NUM_BLOCKS - 1)

Datagram(len, bad0, bad1, az, seed) ==
  [len |-> len, bad0 |-> bad0, bad1 |-> bad1, az |-> az, seed |-> seed]

\* The datagrams the socket delivers in the model: well formed, one corrupt
\* header, one valid block left (azimuth field 65535), every header corrupt,
\* one byte short, empty, and longer than a packet with one corrupt header.
Datagrams ==
  { Datagram(PACKET_SIZE, {}, {}, 0, 0),
    Datagram(PACKET_SIZE, {4}, {}, 35900, 1),
    Datagram(PACKET_SIZE, {0, 1, 2}, 4 .. 11, 65415, 2),
    Datagram(PACKET_SIZE, {0, 2, 4, 6, 8, 10}, {1, 3, 5, 7, 9, 11}, 200, 3),
    Datagram(PACKET_SIZE - 1, {}, {}, 300, 4),
    Datagram(0, {}, {}, 0, 0),
    Datagram(UDP_RECV_SIZE, {}, {7}, 500, 5) }

\* What update hands to parse_packet: data[:1206]
Packets == { Prefix(d, PACKET_SIZE) : d \in Datagrams }

(* ------------------------------- decoder ------------------------------- *)

\* struct.unpack_from('<H', data, off)
UnpackH(d, off) == ByteAt(d, off) + 256 * ByteAt(d, off + 1)

\* struct.unpack_from('<HB', data, off)
UnpackHB(d, off) == <<UnpackH(d, off), ByteAt(d, off + 2)>>

\* Faulty variant of ParseBlock: the azimuth is wrapped into [0, 36000).
ParseBlock_WrapAzimuth(d, offset) ==
  LET azimuth == UnpackH(d, offset + ROTATION_ANGLE_OFFSET) % 36000
  IN  [j1 \in 1 .. CHANNELS_PER_BLOCK |->
         LET channel_offset == offset + 4 + (j1 - 1) * 3
             dr == UnpackHB(d, channel_offset)
         IN  <<dr[1], dr[2], azimuth>>]

\* The inner loop of parse_packet: the 32 channel tuples of the block at
\* offset.
ParseBlock(d, offset) ==
  LET azimuth == UnpackH(d, offset + ROTATION_ANGLE_OFFSET)
  IN  [j1 \in 1 .. CHANNELS_PER_BLOCK |->
         LET channel_offset == offset + 4 + (j1 - 1) * 3
             dr == UnpackHB(d, channel_offset)
         IN  <<dr[1], dr[2], azimuth>>]

HeaderOk(d, offset) == <<ByteAt(d, offset), ByteAt(d, offset + 1)>> = <<255, 238>>

\* Faulty variant of ParseFrom: a bad header ends the loop (break for
\* continue).
RECURSIVE ParseFrom_Break(_, _)
ParseFrom_Break(d, i) ==
  IF i >= NUM_BLOCKS
    THEN <<>>
    ELSE LET offset == i * BLOCK_SIZE
         IN  IF ~HeaderOk(d, offset)
               THEN <<>>
               ELSE <<ParseBlock(d, offset)>> \o ParseFrom_Break(d, i + 1)

RECURSIVE ParseFrom(_, _)
\* The outer loop of parse_packet from block i on.
ParseFrom(d, i) ==
  IF i >= NUM_BLOCKS
    THEN <<>>
    ELSE LET offset == i * BLOCK_SIZE
         IN  IF ~HeaderOk(d, offset)
               THEN ParseFrom(d, i + 1)
               ELSE <<ParseBlock(d, offset)>> \o ParseFrom(d, i + 1)

parse_packet(d) ==
  IF Length(d) # PACKET_SIZE THEN None ELSE Blocks(ParseFrom(d, 0))

(* ------------------------------ projector ------------------------------ *)

polar_to_cartesian(distance, horizontal_angle, vertical_angle) ==
  LET scaled_distance == (distance * 1000) \div DISTANCE_SCALE  \* thousandths
  IN  IF scaled_distance = 0
        THEN <<0, 0, 0, scaled_distance>>
        ELSE <<scaled_distance, vertical_angle, horizontal_angle, scaled_distance>>

\* Faulty variant of Project: the vertical angle is looked up by firing
\* pair (channel_index // 2) instead of channel_index % 16.
RECURSIVE Project_AngleByPair(_, _)
Project_AngleByPair(blocks, c) ==
  IF blocks = <<>>
    THEN <<>>
    ELSE [c1 \in 1 .. Len(Head(blocks)) |->
            LET channel_index == c1 - 1
                s == Head(blocks)[c1]
                vertical_angle == vertical_angles[(channel_index \div 2) + 1]
                p == polar_to_cartesian(s[1], s[3], vertical_angle)
            IN  IF c = 1 THEN <<p[1], p[2], p[3]>> ELSE p[4]]
         \o Project_AngleByPair(Tail(blocks), c)

\* The double loop of update over parsed_data, block order then channel
\* order: the rows of points = np.vstack((xs, ys, zs)).T for c = 1, the list
\* distances for c = 2.
RECURSIVE Project(_, _)
Project(blocks, c) ==
  IF blocks = <<>>
    THEN <<>>
    ELSE [c1 \in 1 .. Len(Head(blocks)) |->
            LET channel_index == c1 - 1
                s == Head(blocks)[c1]
                vertical_angle == vertical_angles[(channel_index % 16) + 1]
                p == polar_to_cartesian(s[1], s[3], vertical_angle)
            IN  IF c = 1 THEN <<p[1], p[2], p[3]>> ELSE p[4]]
         \o Project(Tail(blocks), c)

\* The tuple (points, distances) appended to all_points
Batch(blocks) == <<Project(blocks, 1), Project(blocks, 2)>>

\* Faulty variant of Truthy: the test "is not None".
Truthy_IsNotNone(p) == ~p.none

\* Python truth value of parse_packet's result: None and [] are false.
Truthy(p) == ~p.none /\ p.blocks # <<>>

\* parse_packet and the projection loop on the packets of the model, as
\* functions: TLC evaluates each once instead of once per state.
Decoded == [p \in Packets |-> parse_packet(p)]

Batches == [p \in Packets |-> Batch(Decoded[p].blocks)]

(* ------------------------------- handlers ------------------------------ *)

\* Faulty variant of Concat: newest batch first.
RECURSIVE Concat_NewestFirst(_, _)
Concat_NewestFirst(ps, c) ==
  IF ps = <<>> THEN <<>> ELSE Concat_NewestFirst(Tail(ps), c) \o Head(ps)[c]

RECURSIVE Concat(_, _)
\* np.vstack([p[0] for p in ps]) for c = 1, np.concatenate([p[1] for p in ps])
\* for c = 2
Concat(ps, c) ==
  IF ps = <<>> THEN <<>> ELSE Head(ps)[c] \o Concat(Tail(ps), c)

\* Faulty variant of AppendBatch: the eviction is missing.
AppendBatch_NoEvict(ps, batch) == Append(ps, batch)

\* Faulty variant of AppendBatch: pop() for pop(0), the newest batch goes.
AppendBatch_PopNewest(ps, batch) ==
  LET appended == Append(ps, batch)
  IN  IF Len(appended) > ROTATION_LIMIT
        THEN SubSeq(appended, 1, Len(appended) - 1)
        ELSE appended

\* self.all_points.append(batch), then pop(0) when over ROTATION_LIMIT
AppendBatch(ps, batch) ==
  LET appended == Append(ps, batch)
  IN  IF Len(appended) > ROTATION_LIMIT THEN Tail(appended) ELSE appended

Init ==
  /\ all_points = <<>>
  /\ rotation_count = 0
  /\ scatter = <<>>
  /\ data = Datagram(0, {}, {}, 0, 0)
  /\ parsed_data = None
  /\ combined_distances = <<>>
  /\ event = "init"
  /\ log = <<>>

\* MainWindow.update on the datagram d returned by sock.recvfrom(2048).
\* The colours computed from combined_distances and the prints change
\* nothing the handlers read afterwards; they are left out.  The guard
\* bounds the run (rotation_count is unbounded in the program).
update(d) ==
  /\ rotation_count < MaxRotations
  /\ data' = d
  /\ IF Length(d) >= PACKET_SIZE
       THEN LET parsed == Decoded[Prefix(d, PACKET_SIZE)]
            IN  /\ parsed_data' = parsed
                /\ IF Truthy(parsed)
                     THEN LET new_points == AppendBatch(all_points, Batches[Prefix(d, PACKET_SIZE)])
                          IN  /\ all_points' = new_points
                              /\ scatter' = Concat(new_points, 1)
                              /\ combined_distances' = Concat(new_points, 2)
                              /\ rotation_count' = rotation_count + 1
                              /\ log' = Append(log, d)
                              /\ event' = "appended"
                     ELSE /\ event' = "dropped"
                          /\ UNCHANGED <<all_points, scatter, combined_distances,
                                         rotation_count, log>>
       ELSE /\ parsed_data' = None
            /\ event' = "dropped"
            /\ UNCHANGED <<all_points, scatter, combined_distances,
                           rotation_count, log>>

Keys == {"R", "other"}

\* Faulty variant of keyPressEvent: R clears the scatter plot only.
keyPressEvent_ScatterOnly(key) ==
  IF key = "R"
    THEN /\ scatter' = <<>>
         /\ log' = <<>>
         /\ event' = "reset"
         /\ UNCHANGED <<all_points, rotation_count, data, parsed_data,
                        combined_distances>>
    ELSE /\ event' = "key"
         /\ UNCHANGED <<all_points, scatter, log, rotation_count, data,
                        parsed_data, combined_distances>>

\* Faulty variant of keyPressEvent: R also zeroes the rotation counter.
keyPressEvent_ResetsCount(key) ==
  IF key = "R"
    THEN /\ all_points' = <<>>
         /\ scatter' = <<>>
         /\ log' = <<>>
         /\ rotation_count' = 0
         /\ event' = "reset"
         /\ UNCHANGED <<data, parsed_data, combined_distances>>
    ELSE /\ event' = "key"
         /\ UNCHANGED <<all_points, scatter, log, rotation_count, data,
                        parsed_data, combined_distances>>

\* MainWindow.keyPressEvent
keyPressEvent(key) ==
  IF key = "R"
    THEN /\ all_points' = <<>>
         /\ scatter' = <<>>
         /\ log' = <<>>
         /\ event' = "reset"
         /\ UNCHANGED <<rotation_count, data, parsed_data, combined_distances>>
    ELSE /\ event' = "key"
         /\ UNCHANGED <<all_points, scatter, log, rotation_count, data,
                        parsed_data, combined_distances>>

Update == \E d \in Datagrams : update(d)

KeyPress == \E key \in Keys : keyPressEvent(key)

Next == Update \/ KeyPress

Spec == Init /\ [][Next]_vars

(* ------------------------- reading the byte layout --------------------- *)
(* The wire format, read directly from the bytes of a packet: used to      *)
(* state what the decoder and the projector must return.                   *)

GoodRegions(pkt) ==
  { r \in AllBlocks : ByteAt(pkt, 100 * r) = 255 /\ ByteAt(pkt, 100 * r + 1) = 238 }

\* The i-th (from 1) region with a good header, in ascending order.
RegionOf(pkt, i) ==
  CHOOSE r \in GoodRegions(pkt) :
    Cardinality({ q \in GoodRegions(pkt) : q < r }) = i - 1

FieldAzimuth(pkt, r) == ByteAt(pkt, 100 * r + 2) + 256 * ByteAt(pkt, 100 * r + 3)

FieldDistance(pkt, r, j) ==
  ByteAt(pkt, 100 * r + 4 + 3 * j) + 256 * ByteAt(pkt, 100 * r + 4 + 3 * j + 1)

FieldReflectivity(pkt, r, j) == ByteAt(pkt, 100 * r + 4 + 3 * j + 2)

\* The step just taken was MainWindow.update.
UpdateRan == event \in {"appended", "dropped"}

\* update called parse_packet on data[:1206].
Decoding == UpdateRan /\ Length(data) >= PACKET_SIZE

Packet == Prefix(data, PACKET_SIZE)

\* The datagrams appended since the last reset that the history can still
\* hold, oldest first.
Retained ==
  LET n == Min(Len(log), ROTATION_LIMIT)
  IN  SubSeq(log, Len(log) - n + 1, Len(log))

RECURSIVE PointsBefore(_)
\* Number of points in the batches of all_points before batch k.
PointsBefore(k) ==
  IF k = 1 THEN 0 ELSE PointsBefore(k - 1) + Len(all_points[k - 1][1])

RECURSIVE RetainedBefore(_)
\* Number of points decoded from the datagrams of Retained before the k-th.
RetainedBefore(k) ==
  IF k = 1
    THEN 0
    ELSE RetainedBefore(k - 1)
           + 32 * Cardinality(GoodRegions(Prefix(Retained[k - 1], PACKET_SIZE)))

(* -------------------------------- claims ------------------------------- *)

\* C1: at every point where the history is read (between handlers), the
\* number of retained batches is between 0 and the capacity ROTATION_LIMIT.
C1_SizeWithinCapacity ==
  Len(all_points) >= 0 /\ Len(all_points) <= ROTATION_LIMIT

C1_Witness ==
  event = "appended" /\ Len(log) > ROTATION_LIMIT /\ Len(all_points) = ROTATION_LIMIT

\* C2: eviction is strict FIFO, one per append: an append onto a history
\* below capacity evicts nothing, an append onto a full history removes
\* exactly the oldest batch; the history is always the batches of the last
\* min(n, capacity) datagrams appended since it was last empty, in order.
C2_StrictFifo ==
  /\ [](/\ Len(all_points) = Len(Retained)
        /\ \A k \in 1 .. Len(all_points) :
             all_points[k] = Batches[Prefix(Retained[k], PACKET_SIZE)])
  /\ [][Len(log') = Len(log) + 1 =>
          LET newest == all_points'[Len(all_points')]
          IN  IF Len(all_points) < ROTATION_LIMIT
                THEN all_points' = Append(all_points, newest)
                ELSE all_points' = Append(Tail(all_points), newest)]_vars

C2_Witness ==
  /\ event = "appended"
  /\ Len(log) = ROTATION_LIMIT + 1
  /\ \A a, b \in 1 .. Len(log) : a # b => log[a] # log[b]
  /\ all_points[1] # all_points[2]

\* C3: a datagram whose length is not exactly 1206 bytes, shorter or
\* longer, is rejected whole: no Block records, nothing appended, history
\* and rotation count unchanged.
C3_WrongSizeRejected ==
  [][(UpdateRan' /\ Length(data') # PACKET_SIZE) =>
       /\ parsed_data'.blocks = <<>>
       /\ all_points' = all_points
       /\ rotation_count' = rotation_count]_vars

\* C4: for a 1206-byte packet parse_packet returns one block per region
\* whose first two bytes are FF EE, in ascending region order, each of 32
\* samples; regions with a bad header contribute nothing and do not stop
\* the decoding of later regions.
C4_BlocksAreGoodRegions ==
  Decoding =>
    /\ ~parsed_data.none
    /\ Len(parsed_data.blocks) = Cardinality(GoodRegions(Packet))
    /\ \A i \in 1 .. Len(parsed_data.blocks) :
         LET block == parsed_data.blocks[i]
             r == RegionOf(Packet, i)
         IN  /\ Len(block) = 32
             /\ block[1][3] = FieldAzimuth(Packet, r)
             /\ block[1][1] = FieldDistance(Packet, r, 0)
             /\ block[32][1] = FieldDistance(Packet, r, 31)

C4_Witness ==
  /\ Decoding
  /\ Length(data) = PACKET_SIZE
  /\ GoodRegions(Packet) = AllBlocks \ {4}
  /\ Len(parsed_data.blocks) = 11

\* C5 (as claimed): a 1206-byte packet from which zero points are decoded
\* is still appended as an empty batch and counts as one rotation.
C5_EmptyBatchAppended ==
  [][(UpdateRan' /\ Length(data') = PACKET_SIZE /\ GoodRegions(data') = {}) =>
       /\ rotation_count' = rotation_count + 1
       /\ Len(all_points') = Min(Len(all_points) + 1, ROTATION_LIMIT)
       /\ all_points'[Len(all_points')] = <<<<>>, <<>>>>]_vars

\* C5 (amended): a 1206-byte packet from which zero points are decoded is
\* not appended: history, snapshot and rotation count are unchanged, and
\* no batch in the history is ever empty.
C5_EmptyBatchSkipped ==
  /\ [][(UpdateRan' /\ Length(data') = PACKET_SIZE /\ GoodRegions(data') = {}) =>
          /\ parsed_data' = Blocks(<<>>)
          /\ all_points' = all_points
          /\ scatter' = scatter
          /\ rotation_count' = rotation_count]_vars
  /\ [](\A k \in 1 .. Len(all_points) : Len(all_points[k][1]) >= 32)

C5_Witness ==
  /\ event = "dropped"
  /\ Length(data) = PACKET_SIZE
  /\ parsed_data = Blocks(<<>>)
  /\ Len(all_points) > 0

\* C6: the R key empties the history and the snapshot whatever came
\* before, and afterwards the history holds no more batches than were
\* appended since, and the snapshot is made only of the points of the
\* datagrams received after that reset.
C6_ResetEmpties ==
  /\ event = "reset" => (all_points = <<>> /\ scatter = <<>>)
  /\ Len(all_points) <= Len(log)
  /\ Len(scatter) = RetainedBefore(Len(Retained) + 1)
  /\ \A k \in 1 .. Len(Retained) :
       \E before \in {RetainedBefore(k)} :
         \E points \in {Batches[Prefix(Retained[k], PACKET_SIZE)][1]} :
           \A m \in 1 .. Len(points) : scatter[before + m] = points[m]

C6_Witness ==
  /\ event = "appended"
  /\ Len(log) = 1
  /\ rotation_count > ROTATION_LIMIT
  /\ Len(all_points) = 1

\* C7: the snapshot built after an append is the concatenation, oldest
\* batch first and in the arrival order of the packets, of the points of
\* the retained batches, the scaled ranges are concatenated in the same
\* order, both have the same length, and point i and scaled range i come
\* from the same sample.
C7_SnapshotIsConcatenation ==
  event = "appended" =>
    /\ Len(scatter) = PointsBefore(Len(all_points) + 1)
    /\ Len(combined_distances) = Len(scatter)
    /\ \A k \in 1 .. Len(all_points) :
         /\ Len(all_points[k][2]) = Len(all_points[k][1])
         /\ all_points[k] = Batches[Prefix(Retained[k], PACKET_SIZE)]
         /\ \E before \in {PointsBefore(k)} :
              \A m \in 1 .. Len(all_points[k][1]) :
                /\ scatter[before + m] = all_points[k][1][m]
                /\ combined_distances[before + m] = all_points[k][2][m]
    /\ \A i \in 1 .. Len(scatter) : scatter[i][1] = combined_distances[i]

C7_Witness ==
  /\ event = "appended"
  /\ Len(all_points) = ROTATION_LIMIT
  /\ Len(all_points[1][1]) # Len(all_points[2][1])

\* C8 (as claimed): every decoded block carries an azimuth in [0, 36000)
\* hundredths of a degree, whatever the azimuth field holds.
C8_AzimuthBelow360 ==
  Decoding =>
    \A i \in 1 .. Len(parsed_data.blocks) :
      \A j \in 1 .. Len(parsed_data.blocks[i]) :
        parsed_data.blocks[i][j][3] >= 0 /\ parsed_data.blocks[i][j][3] < 36000

\* C8 (amended): every decoded block carries the 16-bit little-endian
\* azimuth field of its region unchanged, in [0, 65536) hundredths of a
\* degree, the same on its 32 samples: it is below 36000 exactly when the
\* field is.
C8_AzimuthIsField ==
  Decoding =>
    \A i \in 1 .. Len(parsed_data.blocks) :
      LET field == FieldAzimuth(Packet, RegionOf(Packet, i))
      IN  \A j \in 1 .. Len(parsed_data.blocks[i]) :
            LET azimuth == parsed_data.blocks[i][j][3]
            IN  azimuth = field /\ azimuth >= 0 /\ azimuth < 65536

C8_Witness ==
  /\ Decoding
  /\ \E i \in 1 .. Len(parsed_data.blocks) : parsed_data.blocks[i][1][3] >= 36000
  /\ \E i \in 1 .. Len(parsed_data.blocks) : parsed_data.blocks[i][1][3] < 36000

\* C9: the sample at slot j of a decoded block is read from bytes
\* offset+4+3j .. offset+4+3j+2 of its region and projected with the
\* vertical angle vertical_angles[j mod 16] and the block's azimuth, in
\* block order then channel order: the batch has 32 points per valid block.
C9_SampleLayoutAndProjection ==
  event = "appended" =>
    LET blocks == parsed_data.blocks
        batch == all_points[Len(all_points)]
    IN  /\ Len(batch[1]) = 32 * Len(blocks)
        /\ Len(batch[2]) = 32 * Len(blocks)
        /\ \A i \in 1 .. Len(blocks) :
             \E r \in {RegionOf(Packet, i)} :
               \A j \in 0 .. 31 :
                 LET distance == FieldDistance(Packet, r, j)
                     n == 32 * (i - 1) + j + 1
                 IN  /\ blocks[i][j + 1] =
                          <<distance, FieldReflectivity(Packet, r, j),
                            FieldAzimuth(Packet, r)>>
                     /\ batch[2][n] = 5 * distance
                     /\ batch[1][n] =
                          IF distance = 0
                            THEN <<0, 0, 0>>
                            ELSE <<5 * distance, vertical_angles[(j % 16) + 1],
                                   FieldAzimuth(Packet, r)>>

C9_Witness ==
  /\ event = "appended"
  /\ Len(parsed_data.blocks) = 12
  /\ parsed_data.blocks[2][20][1] # 0
  /\ parsed_data.blocks[2][4][1] # 0
  /\ all_points[Len(all_points)][1][32 + 20][2] = 3
  /\ all_points[Len(all_points)][1][32 + 4][2] = 3

\* C10: the rotation counter grows by exactly one with each batch appended
\* and changes in no other step, the R key leaves it as it is; so it never
\* decreases and the history never holds more batches than
\* min(rotation_count, capacity).
C10_RotationCount ==
  /\ [](Len(all_points) <= Min(rotation_count, ROTATION_LIMIT))
  /\ [][/\ rotation_count' >= rotation_count
        /\ rotation_count' =
             rotation_count + (IF Len(log') = Len(log) + 1 THEN 1 ELSE 0)
        /\ rotation_count' # rotation_count =>
             (event' = "appended" /\ all_points' # <<>>)
        /\ event' = "reset" => all_points' = <<>>]_vars

C10_Witness ==
  /\ event = "reset"
  /\ all_points = <<>>
  /\ rotation_count > ROTATION_LIMIT

====
